---- MODULE Spec2Model ----
(***************************************************************************)
(* GPTree backend: the chat-stream endpoint (history assembly, token       *)
(* streaming, persistence of the exchange) and the conversation / message  *)
(* endpoints that write the rows it reads.                                  *)
(*                                                                         *)
(* Strings are sequences of one-character strings, so that concatenation   *)
(* (full_response += token) and slicing are computed, not assumed.         *)
(* created_at order of the messages table is the order of the sequence     *)
(* msgs (ties broken by insertion order).                                  *)
(*                                                                         *)
(* Handler code between two suspension points (await / yield) runs as one  *)
(* action: the store client is called synchronously, so the assembly in    *)
(* chat_stream and the whole persistence phase of generate_stream take     *)
(* place without interleaving; streams interleave at each token.           *)
(***************************************************************************)
EXTENDS Integers, Sequences, FiniteSets, TLC

\* ---------------------------------------------------------------- bounds
MaxId == 4
MaxFrags == 2

\* ------------------------------------------------------------- constants
Null == 0

Users == {"u1", "u2"}
Req == {"r1", "r2"}
Roles == {"user", "assistant", "system"}
Texts == {<<"a">>, <<"b">>}
SelTexts == {<<"a">>}
Models == {"gpt-4"}
Temperatures == {7}

Msg(r, c) == [role |-> r, content |-> c]

\* the messages lists a caller sends
MsgLists ==
  { <<>>,
    <<Msg("user", <<"a">>)>>,
    <<Msg("assistant", <<"a">>), Msg("user", <<"b">>)>>,
    <<Msg("system", <<"b">>)>>,
    <<Msg("user", <<"a">>), Msg("user", <<"b">>)>> }

VARIABLES
  convs,            \* conversations table: a set of rows
  msgs,             \* messages table, in created_at order
  nextId,           \* source of uuid4 values
  pc,               \* per request: idle, rejected, stream, finish, closed
  payload,          \* per request: the JSON body
  response,         \* per request: HTTP status answered (0: none yet)
  conversation_id,  \* per request: chat_stream's conversation_id
  openai_messages,  \* per request: the prompt
  full_response,    \* per request: the accumulator
  events,           \* per request: the SSE events yielded so far
  disconnected,     \* per request: the transport reports the client gone
  overdue,          \* per request: current_time - last_keepalive > 15
  submitted,        \* history: the (conversation, user, content) of the user
                    \* messages whose exchange went through its persistence
                    \* phase with no store failure
  side_thread_response, \* the last POST /api/conversations/side-thread: its
                    \* body and the HTTP status answered (0: none yet)
  title_call,       \* a call of generate_title: its messages, what the
                    \* provider call does, and the title once it returned
  side_thread_task  \* per worker process: where its create_side_thread
                    \* call stands, its body and its current_indices

vars == <<convs, msgs, nextId, pc, payload, response, conversation_id,
          openai_messages, full_response, events, disconnected, overdue,
          submitted, side_thread_response, title_call, side_thread_task>>

store == <<convs, msgs>>
reqvars == <<pc, payload, response, conversation_id, openai_messages,
             full_response, events, disconnected, overdue, submitted,
             title_call, side_thread_task>>

\* ------------------------------------------------------------ store reads

\* a plausible slip: the filter on user_id is left out
ConvRowsAnyUser(cs, cid, uid) ==
  {c \in cs : c.conversation_id = cid}

\* .eq("conversation_id", cid).eq("user_id", uid) on conversations
ConvRows(cs, cid, uid) ==
  {c \in cs : c.conversation_id = cid /\ c.user_id = uid}

\* .eq("conversation_id", cid).eq("user_id", uid).order("created_at") on messages
History(ms, cid, uid) ==
  SelectSeq(ms, LAMBDA m : m.conversation_id = cid /\ m.user_id = uid)

\* [{"role": msg["role"], "content": msg["content"]} for msg in rows]
MapRoleContent(rows) ==
  [i \in 1..Len(rows) |-> Msg(rows[i].role, rows[i].content)]

\* ------------------------------------------------------ History Assembler

\* next((m for m in messages if m["role"] == "user"), None), as a 1-based
\* index into messages from position i on; 0 stands for None
RECURSIVE FirstUserFrom(_, _)
FirstUserFrom(messages, i) ==
  IF i > Len(messages) THEN 0
  ELSE IF messages[i].role = "user" THEN i
  ELSE FirstUserFrom(messages, i + 1)

FirstUserMsg(messages) == FirstUserFrom(messages, 1)

\* the loop of chat.py:99-104: the 0-based index of the first row whose
\* message_id is parent_msg_id, scanning from 0-based idx; -1 when no row has it
RECURSIVE ParentIndexFrom(_, _, _)
ParentIndexFrom(rows, parent_msg_id, idx) ==
  IF idx >= Len(rows) THEN -1
  ELSE IF rows[idx + 1].message_id = parent_msg_id THEN idx
  ELSE ParentIndexFrom(rows, parent_msg_id, idx + 1)

ParentMsgIndex(rows, parent_msg_id) == ParentIndexFrom(rows, parent_msg_id, 0)

\* rows[:parent_msg_index + 1] mapped to {role, content}; [] when the parent
\* conversation has no rows
ParentPrefix(rows, parent_msg_id) ==
  IF rows # <<>>
    THEN MapRoleContent(SubSeq(rows, 1, ParentMsgIndex(rows, parent_msg_id) + 1))
    ELSE <<>>

\* a plausible slip: the duplicate check is left out
AppendNewUserAlways(prompt, messages) ==
  IF messages = <<>> THEN prompt
  ELSE LET i == FirstUserMsg(messages) IN
    IF i = 0 THEN prompt
    ELSE Append(prompt, Msg(messages[i].role, messages[i].content))

\* "Append new user message if provided": the first user-role entry of the
\* request, unless its content is the content of the last prompt entry
AppendNewUser(prompt, messages) ==
  IF messages = <<>> THEN prompt
  ELSE LET i == FirstUserMsg(messages) IN
    IF i = 0 THEN prompt
    ELSE IF prompt = <<>> \/ prompt[Len(prompt)].content # messages[i].content
      THEN Append(prompt, Msg(messages[i].role, messages[i].content))
      ELSE prompt

\* except Exception as e: raise HTTPException(status_code=500, ...): every
\* exception raised in chat_stream, the HTTPException(400) ones included, is
\* caught by the handler's own except clause and answered as 500
ChatStreamError(status) == 500

Rejected(status) == [status |-> ChatStreamError(status), prompt |-> <<>>]
Accepted(prompt) == [status |-> 200, prompt |-> prompt]

\* side-thread branch, chat.py:85-138
AssembleSideThread(pl, conv, ms) ==
  LET prefix == ParentPrefix(
                  History(ms, conv.parent_conversation_id, pl.userId),
                  conv.parent_message_id)
      own == MapRoleContent(History(ms, pl.conversationId, pl.userId))
  IN Accepted(AppendNewUser(prefix \o own, pl.messages))

\* main-conversation branch, chat.py:139-174
AssembleMain(pl, ms) ==
  LET rows == History(ms, pl.conversationId, pl.userId) IN
  IF rows # <<>>
    THEN Accepted(AppendNewUser(MapRoleContent(rows), pl.messages))
    ELSE IF pl.messages = <<>>
      THEN Rejected(400)
      ELSE Accepted(MapRoleContent(pl.messages))

\* a plausible slip: the prompt of a new conversation is its last message only
AssembleNewLastOnly(pl) ==
  IF pl.messages = <<>>
    THEN Rejected(400)
    ELSE Accepted(MapRoleContent(<<pl.messages[Len(pl.messages)]>>))

\* new-conversation branch, chat.py:63-72
AssembleNew(pl) ==
  IF pl.messages = <<>>
    THEN Rejected(400)
    ELSE Accepted(MapRoleContent(pl.messages))

\* chat_stream up to the return of the EventSourceResponse, chat.py:49-174
Assemble(pl, cs, ms) ==
  IF pl.userId = "" THEN Rejected(400)
  ELSE IF pl.conversationId = Null
    THEN AssembleNew(pl)
    ELSE LET found == ConvRows(cs, pl.conversationId, pl.userId) IN
      \* .single() raises when no row matches
      IF found = {} THEN Rejected(406)
      ELSE LET conv == CHOOSE c \in found : TRUE IN
        IF conv.is_side_thread
          THEN AssembleSideThread(pl, conv, ms)
          ELSE AssembleMain(pl, ms)

Payloads ==
  [userId : Users \cup {""},
   conversationId : 0..(nextId - 1),
   messages : MsgLists,
   model : Models,
   temperature : Temperatures]

\* POST /api/chat/stream with a body of pls is received by a task that serves
\* no request and is answered: with an error status, or with the event stream,
\* whose generator starts at full_response = ""
ChatStreamFrom(p, pls) ==
  /\ pc[p] \in {"idle", "rejected", "closed"}
  /\ \E pl \in pls :
       LET a == Assemble(pl, convs, msgs)
           new == pl.conversationId = Null
       IN /\ (a.status = 200 /\ new) => nextId <= MaxId
          /\ payload' = [payload EXCEPT ![p] = pl]
          /\ response' = [response EXCEPT ![p] = a.status]
          /\ openai_messages' = [openai_messages EXCEPT ![p] = a.prompt]
          /\ pc' = [pc EXCEPT ![p] = IF a.status = 200 THEN "stream" ELSE "rejected"]
          /\ conversation_id' = [conversation_id EXCEPT ![p] =
               IF new /\ a.status = 200 THEN nextId ELSE pl.conversationId]
          /\ nextId' = IF new /\ a.status = 200 THEN nextId + 1 ELSE nextId
  /\ full_response' = [full_response EXCEPT ![p] = <<>>]
  /\ events' = [events EXCEPT ![p] = <<>>]
  /\ disconnected' = [disconnected EXCEPT ![p] = FALSE]
  /\ overdue' = [overdue EXCEPT ![p] = FALSE]
  /\ UNCHANGED <<convs, msgs, submitted, side_thread_response,
                 title_call, side_thread_task>>

ChatStream(p) == ChatStreamFrom(p, Payloads)

\* ------------------------------------------------------ Stream Reconciler

Take(str, n) == SubSeq(str, 1, IF Len(str) < n THEN Len(str) ELSE n)

Ellipsis == <<".", ".", ".">>
NewChat == <<"N", "e", "w", " ", "C", "h", "a", "t">>

\* openai_messages[0]["content"][:50] + "..." if openai_messages[0]["content"]
\* else "New Chat"
Title(prompt) ==
  IF prompt[1].content # <<>>
    THEN Take(prompt[1].content, 50) \o Ellipsis
    ELSE NewChat

ConvRow(cid, uid, title, model, temperature, side, pmsg, pconv) ==
  [conversation_id |-> cid, user_id |-> uid, title |-> title,
   model |-> model, temperature |-> temperature, is_side_thread |-> side,
   parent_message_id |-> pmsg, parent_conversation_id |-> pconv]

MsgRow(mid, cid, uid, role, content) ==
  [message_id |-> mid, conversation_id |-> cid, user_id |-> uid,
   role |-> role, content |-> content, indices_for_button |-> <<>>]

\* for msg in reversed(openai_messages): if msg["role"] == "user": ... break
\* as a 1-based index scanning down from i; 0 stands for None
RECURSIVE LastUserFrom(_, _)
LastUserFrom(prompt, i) ==
  IF i < 1 THEN 0
  ELSE IF prompt[i].role = "user" THEN i
  ELSE LastUserFrom(prompt, i - 1)

LastUserMsg(prompt) == LastUserFrom(prompt, Len(prompt))

\* a plausible slip: the lookup never finds a row
ExistingMsgNever(ms, cid, uid, content) == FALSE

\* existing_msg_check: a user-role row of this conversation and user with
\* this content
ExistingMsg(ms, cid, uid, content) ==
  \E i \in 1..Len(ms) :
    /\ ms[i].conversation_id = cid
    /\ ms[i].user_id = uid
    /\ ms[i].content = content
    /\ ms[i].role = "user"

\* the store round trips of the persistence phase, in order; one of them may
\* fail (raise, or report no row)
FailPoints ==
  {"conv_check", "conv_insert", "existing_msg_check", "user_insert",
   "assistant_insert", "touch"}

Failed(s, step) == [s EXCEPT !.error = step]

\* "Get or create conversation", chat.py:207-227
SaveConversation(s, r, fail) ==
  IF fail = "conv_check" THEN Failed(s, "conv_check")
  ELSE IF ConvRows(s.convs, r.conversation_id, r.user_id) # {} THEN s
  ELSE IF r.openai_messages = <<>> THEN Failed(s, "title")
  ELSE IF \/ fail = "conv_insert"
          \/ \E c \in s.convs : c.conversation_id = r.conversation_id
    THEN Failed(s, "conv_insert")
  ELSE [s EXCEPT !.convs = s.convs \cup
          {ConvRow(r.conversation_id, r.user_id, Title(r.openai_messages),
                   r.model, r.temperature, FALSE, Null, Null)}]

\* "Save user message", chat.py:229-265
SaveUserMessage(s, r, fail) ==
  LET i == LastUserMsg(r.openai_messages) IN
  IF s.error # "" \/ i = 0 THEN s
  ELSE IF fail = "existing_msg_check" THEN Failed(s, "existing_msg_check")
  ELSE IF ExistingMsg(s.msgs, r.conversation_id, r.user_id,
                      r.openai_messages[i].content) THEN s
  ELSE IF fail = "user_insert" THEN Failed(s, "user_insert")
  ELSE [s EXCEPT
          !.msgs = Append(s.msgs, MsgRow(s.nextId, r.conversation_id, r.user_id,
                            "user", r.openai_messages[i].content)),
          !.nextId = s.nextId + 1]

\* "Save assistant response", chat.py:267-279
SaveAssistantMessage(s, r, fail) ==
  IF s.error # "" THEN s
  ELSE IF fail = "assistant_insert" THEN Failed(s, "assistant_insert")
  ELSE [s EXCEPT
          !.msgs = Append(s.msgs, MsgRow(s.nextId, r.conversation_id, r.user_id,
                            "assistant", r.full_response)),
          !.nextId = s.nextId + 1]

\* "Update conversation timestamp", chat.py:281-286
TouchConversation(s, r, fail) ==
  IF s.error # "" THEN s
  ELSE IF fail = "touch" THEN Failed(s, "touch")
  ELSE s

\* a plausible slip: the messages are written first, the conversation last
PersistMessagesFirst(r, cs, ms, nid, fail) ==
  SaveConversation(
    TouchConversation(
      SaveAssistantMessage(
        SaveUserMessage([convs |-> cs, msgs |-> ms, nextId |-> nid, error |-> ""],
                        r, fail),
        r, fail),
      r, fail),
    r, fail)

\* the try block of chat.py:204-292: the writes made before a failing step
\* stay (no transaction wraps them)
Persist(r, cs, ms, nid, fail) ==
  TouchConversation(
    SaveAssistantMessage(
      SaveUserMessage(
        SaveConversation([convs |-> cs, msgs |-> ms, nextId |-> nid, error |-> ""],
                         r, fail),
        r, fail),
      r, fail),
    r, fail)

\* what generate_stream's closure holds for request p
Closure(p, full) ==
  [conversation_id |-> conversation_id[p],
   user_id |-> payload[p].userId,
   model |-> payload[p].model,
   temperature |-> payload[p].temperature,
   openai_messages |-> openai_messages[p],
   full_response |-> full]

TokenEvent(token) == [event |-> "token", content |-> token]
KeepAlive == [event |-> "keep-alive"]
DbErrorEvent(step) ==
  [event |-> "error", message |-> <<"Failed to save to database", step>>]
ProviderErrorEvent == [event |-> "error", message |-> <<"LLM provider error">>]
DoneEvent(cid) == [event |-> "done", finish_reason |-> "stop", conversationId |-> cid]

TokenEvents(evs) == SelectSeq(evs, LAMBDA e : e.event = "token")

\* the user message request p submits: the first user-role entry of its messages
Submission(p) ==
  LET i == FirstUserMsg(payload[p].messages) IN
  IF i = 0 THEN {}
  ELSE {[conversation_id |-> conversation_id[p], user_id |-> payload[p].userId,
         content |-> payload[p].messages[i].content]}

\* the k-th fragment the provider sends
Fragment(k) == IF k % 2 = 1 THEN <<"a">> ELSE <<"b">>

\* a plausible slip: a store failure is swallowed, no error event is yielded
PersistAndSwallow(p, full, evs) ==
  /\ \E fail \in FailPoints \cup {"none"} :
       LET s == Persist(Closure(p, full), convs, msgs, nextId, fail) IN
       /\ s.nextId <= MaxId + 1
       /\ convs' = s.convs
       /\ msgs' = s.msgs
       /\ nextId' = s.nextId
       /\ submitted' = IF s.error = "" THEN submitted \cup Submission(p) ELSE submitted
       /\ events' = [events EXCEPT ![p] = evs]
  /\ pc' = [pc EXCEPT ![p] = "finish"]

\* the persistence phase for the accumulated response full and, when it
\* failed, the error event that follows it with no suspension point in
\* between; evs are the events yielded before
PersistAndReport(p, full, evs) ==
  /\ \E fail \in FailPoints \cup {"none"} :
       LET s == Persist(Closure(p, full), convs, msgs, nextId, fail) IN
       /\ s.nextId <= MaxId + 1
       /\ convs' = s.convs
       /\ msgs' = s.msgs
       /\ nextId' = s.nextId
       /\ submitted' = IF s.error = "" THEN submitted \cup Submission(p) ELSE submitted
       /\ events' = [events EXCEPT ![p] =
            IF s.error # "" THEN Append(evs, DbErrorEvent(s.error)) ELSE evs]
  /\ pc' = [pc EXCEPT ![p] = "finish"]

\* a plausible slip: the fragment is put in front of the accumulator
AccumulateInFront(full, token) == token \o full

\* full_response += token
Accumulate(full, token) == full \o token

\* a fragment arrives and the client is still there: accumulate, yield the
\* token event, then the keep-alive comment when more than 15 s have passed
Token(p) ==
  /\ pc[p] = "stream"
  /\ ~disconnected[p]
  /\ Len(TokenEvents(events[p])) < MaxFrags
  /\ LET token == Fragment(Len(TokenEvents(events[p])) + 1) IN
       /\ full_response' = [full_response EXCEPT ![p] = Accumulate(@, token)]
       /\ events' = [events EXCEPT ![p] =
            IF overdue[p]
              THEN Append(Append(@, TokenEvent(token)), KeepAlive)
              ELSE Append(@, TokenEvent(token))]
  /\ overdue' = [overdue EXCEPT ![p] = FALSE]
  /\ UNCHANGED <<convs, msgs, nextId, pc, payload, response, conversation_id,
                 openai_messages, disconnected, submitted, side_thread_response,
                 title_call, side_thread_task>>

\* a fragment arrives and request.is_disconnected() is true: break before
\* the fragment is accumulated or yielded, persist
TokenAfterDisconnect(p) ==
  /\ pc[p] = "stream"
  /\ disconnected[p]
  /\ PersistAndReport(p, full_response[p], events[p])
  /\ UNCHANGED <<payload, response, conversation_id, openai_messages,
                 full_response, disconnected, overdue, side_thread_response,
                 title_call, side_thread_task>>

\* the provider's stream ends: persist
StreamEnd(p) ==
  /\ pc[p] = "stream"
  /\ PersistAndReport(p, full_response[p], events[p])
  /\ UNCHANGED <<payload, response, conversation_id, openai_messages,
                 full_response, disconnected, overdue, side_thread_response,
                 title_call, side_thread_task>>

\* stream_chat raises (at the create call or in mid-stream): the outer except
\* clause of generate_stream yields an error event and the generator returns
ProviderFail(p) ==
  /\ pc[p] = "stream"
  /\ events' = [events EXCEPT ![p] = Append(@, ProviderErrorEvent)]
  /\ pc' = [pc EXCEPT ![p] = "closed"]
  /\ UNCHANGED <<convs, msgs, nextId, payload, response, conversation_id,
                 openai_messages, full_response, disconnected, overdue,
                 submitted, side_thread_response,
                 title_call, side_thread_task>>

\* a plausible slip: the done event is yielded inside the token loop, which
\* goes on
DoneInsideLoop(p) ==
  /\ pc[p] = "finish"
  /\ events' = [events EXCEPT ![p] = Append(@, DoneEvent(conversation_id[p]))]
  /\ pc' = [pc EXCEPT ![p] = "stream"]
  /\ UNCHANGED <<convs, msgs, nextId, payload, response, conversation_id,
                 openai_messages, full_response, disconnected, overdue,
                 submitted, side_thread_response,
                 title_call, side_thread_task>>

\* "Send done event"
Done(p) ==
  /\ pc[p] = "finish"
  /\ events' = [events EXCEPT ![p] = Append(@, DoneEvent(conversation_id[p]))]
  /\ pc' = [pc EXCEPT ![p] = "closed"]
  /\ UNCHANGED <<convs, msgs, nextId, payload, response, conversation_id,
                 openai_messages, full_response, disconnected, overdue,
                 submitted, side_thread_response,
                 title_call, side_thread_task>>

\* the client goes away while the stream is open
Disconnect(p) ==
  /\ pc[p] = "stream"
  /\ ~disconnected[p]
  /\ disconnected' = [disconnected EXCEPT ![p] = TRUE]
  /\ UNCHANGED <<convs, msgs, nextId, pc, payload, response, conversation_id,
                 openai_messages, full_response, events, overdue,
                 submitted, side_thread_response,
                 title_call, side_thread_task>>

\* wall-clock time passes: current_time - last_keepalive exceeds 15
Tick(p) ==
  /\ pc[p] = "stream"
  /\ ~overdue[p]
  /\ overdue' = [overdue EXCEPT ![p] = TRUE]
  /\ UNCHANGED <<convs, msgs, nextId, pc, payload, response, conversation_id,
                 openai_messages, full_response, events, disconnected,
                 submitted, side_thread_response,
                 title_call, side_thread_task>>

\* ------------- the persistence phase, one store round trip after the other
\* (two requests served by two worker processes: the store calls of one
\* process block its own event loop only, so the round trips of the two
\* persistence phases interleave; no store call fails here)

\* the stream has ended: conv_check, the conversation insert when there is
\* no row, and existing_msg_check for the last user message of the prompt
ExistingMsgCheck(p) ==
  /\ pc[p] = "stream"
  /\ LET r == Closure(p, full_response[p])
         s == SaveConversation(
                [convs |-> convs, msgs |-> msgs, nextId |-> nextId, error |-> ""],
                r, "none")
         i == LastUserMsg(r.openai_messages)
     IN /\ s.error = ""
        /\ convs' = s.convs
        /\ pc' = [pc EXCEPT ![p] =
             IF i # 0 /\ ~ExistingMsg(msgs, r.conversation_id, r.user_id,
                                      r.openai_messages[i].content)
               THEN "user_insert"
               ELSE "assistant_insert"]
  /\ UNCHANGED <<msgs, nextId, payload, response, conversation_id,
                 openai_messages, full_response, events, disconnected,
                 overdue, submitted, side_thread_response,
                 title_call, side_thread_task>>

\* "Only save if it doesn't already exist": the insert of the user message
UserInsert(p) ==
  /\ pc[p] = "user_insert"
  /\ nextId <= MaxId
  /\ LET r == Closure(p, full_response[p])
         i == LastUserMsg(r.openai_messages)
     IN msgs' = Append(msgs, MsgRow(nextId, r.conversation_id, r.user_id,
                                    "user", r.openai_messages[i].content))
  /\ nextId' = nextId + 1
  /\ pc' = [pc EXCEPT ![p] = "assistant_insert"]
  /\ UNCHANGED <<convs, payload, response, conversation_id, openai_messages,
                 full_response, events, disconnected, overdue, submitted, side_thread_response,
                 title_call, side_thread_task>>

\* the insert of the assistant message and the timestamp touch
AssistantInsert(p) ==
  /\ pc[p] = "assistant_insert"
  /\ nextId <= MaxId
  /\ msgs' = Append(msgs, MsgRow(nextId, conversation_id[p], payload[p].userId,
                                 "assistant", full_response[p]))
  /\ nextId' = nextId + 1
  /\ submitted' = submitted \cup Submission(p)
  /\ pc' = [pc EXCEPT ![p] = "finish"]
  /\ UNCHANGED <<convs, payload, response, conversation_id, openai_messages,
                 full_response, events, disconnected, overdue, side_thread_response,
                 title_call, side_thread_task>>

\* --------------------------------------- conversation and message routes

DiscussThis == <<"D", "i", "s", "c", "u", "s", "s", " ", "t", "h", "i", "s", ":", " ">>
SidePrefix == <<"S", "i", "d", "e", ":", " ">>

\* a plausible slip: the title is cut but gets no ellipsis
SideThreadTitleCut(selected_text) == SidePrefix \o Take(selected_text, 30)

\* f"Side: {selected_text[:30]}..." if len(selected_text) > 30
\* else f"Side: {selected_text}"
SideThreadTitle(selected_text) ==
  IF Len(selected_text) > 30
    THEN SidePrefix \o Take(selected_text, 30) \o Ellipsis
    ELSE SidePrefix \o selected_text

Button(start, end, cid) == [start |-> start, end |-> end, conversation_id |-> cid]

\* a plausible slip: the update is not restricted to the parent message
UpdateButtonsOfUser(ms, mid, uid, indices) ==
  [i \in 1..Len(ms) |->
     IF ms[i].user_id = uid
       THEN [ms[i] EXCEPT !.indices_for_button = indices]
       ELSE ms[i]]

\* .update({"indices_for_button": indices}).eq("message_id", mid).eq("user_id", uid)
UpdateButtons(ms, mid, uid, indices) ==
  [i \in 1..Len(ms) |->
     IF ms[i].message_id = mid /\ ms[i].user_id = uid
       THEN [ms[i] EXCEPT !.indices_for_button = indices]
       ELSE ms[i]]

Spans == {<<0, 1>>}

SideThreadCreate(uid, pmid, pcid, selected_text, start, end) ==
  [user_id |-> uid, parent_message_id |-> pmid, parent_conversation_id |-> pcid,
   selected_text |-> selected_text, start_index |-> start, end_index |-> end]

NoSideThread == SideThreadCreate("", Null, Null, <<>>, 0, 0)

\* except HTTPException: raise / except Exception as e: raise
\* HTTPException(status_code=500): an HTTPException goes through with its
\* status, any other exception is answered 500
SideThreadError(exc) == IF exc.http THEN exc.status ELSE 500

\* .single().execute() on no row: the store client raises its own error (the
\* single-row read fails), which is no HTTPException
SingleFailed == [http |-> FALSE, status |-> 406]

\* POST /api/conversations/side-thread by one of users with a selected text
\* of texts and a span of spans, answered 200; ids are taken up to limit. The
\* parent message is read by message_id and user_id only
CreateSideThreadFrom(users, texts, spans, limit) ==
  /\ nextId + 1 <= limit
  /\ \E uid \in users, pmid \in 1..(nextId - 1), pcid \in 1..(nextId - 1),
        selected_text \in texts, span \in spans :
       /\ \E i \in 1..Len(msgs) :
            /\ msgs[i].message_id = pmid
            /\ msgs[i].user_id = uid
            /\ LET side_thread_id == nextId
                   initial_msg_id == nextId + 1
                   current_indices == msgs[i].indices_for_button
                   new_button == Button(span[1], span[2], side_thread_id)
               IN /\ convs' = convs \cup
                       {ConvRow(side_thread_id, uid, SideThreadTitle(selected_text),
                                "RohanGPT", 7, TRUE, pmid, pcid)}
                  /\ msgs' = Append(
                       UpdateButtons(msgs, pmid, uid,
                                     Append(current_indices, new_button)),
                       MsgRow(initial_msg_id, side_thread_id, uid, "user",
                              DiscussThis \o selected_text))
       /\ side_thread_response' =
            [payload |-> SideThreadCreate(uid, pmid, pcid, selected_text,
                                          span[1], span[2]),
             status |-> 200]
       /\ nextId' = nextId + 2
  /\ UNCHANGED reqvars

CreateSideThread(users) == CreateSideThreadFrom(users, SelTexts, Spans, MaxId)

\* POST /api/conversations/side-thread with a body of calls when no message
\* has its parent_message_id and user_id: the single-row read fails at
\* conversations.py:122-127
CreateSideThreadNotFound(calls) ==
  /\ \E call \in calls :
       /\ \A i \in 1..Len(msgs) :
            ~(/\ msgs[i].message_id = call.parent_message_id
              /\ msgs[i].user_id = call.user_id)
       /\ side_thread_response' =
            [payload |-> call, status |-> SideThreadError(SingleFailed)]
  /\ UNCHANGED <<convs, msgs, nextId>>
  /\ UNCHANGED reqvars

\* no create_side_thread call is under way in a worker process
NoTask == [pc |-> "idle", call |-> NoSideThread, current_indices |-> <<>>]

\* ------ create_side_thread, one part after the other (two calls served by
\* two worker processes: the store round trips of the two calls interleave)

\* worker w receives a call and reads the parent message: parent_msg
SideThreadRead(w, users) ==
  /\ side_thread_task[w].pc = "idle"
  /\ \E uid \in users, pmid \in 1..(nextId - 1), pcid \in 1..(nextId - 1),
        selected_text \in SelTexts, span \in Spans :
       \E i \in 1..Len(msgs) :
         /\ msgs[i].message_id = pmid
         /\ msgs[i].user_id = uid
         /\ side_thread_task' = [side_thread_task EXCEPT ![w] =
              [pc |-> "read",
               call |-> SideThreadCreate(uid, pmid, pcid, selected_text,
                                         span[1], span[2]),
               current_indices |-> msgs[i].indices_for_button]]
  /\ UNCHANGED <<convs, msgs, nextId, pc, payload, response, conversation_id,
                 openai_messages, full_response, events, disconnected, overdue,
                 submitted, side_thread_response, title_call>>

\* worker w inserts the side thread, writes the annotations it read with the
\* new button appended, inserts the seed message and answers 200
SideThreadWrite(w, limit) ==
  /\ side_thread_task[w].pc = "read"
  /\ nextId + 1 <= limit
  /\ LET call == side_thread_task[w].call
         side_thread_id == nextId
         initial_msg_id == nextId + 1
         current_indices == side_thread_task[w].current_indices
         new_button == Button(call.start_index, call.end_index, side_thread_id)
     IN /\ convs' = convs \cup
             {ConvRow(side_thread_id, call.user_id,
                      SideThreadTitle(call.selected_text), "RohanGPT", 7, TRUE,
                      call.parent_message_id, call.parent_conversation_id)}
        /\ msgs' = Append(
             UpdateButtons(msgs, call.parent_message_id, call.user_id,
                           Append(current_indices, new_button)),
             MsgRow(initial_msg_id, side_thread_id, call.user_id, "user",
                    DiscussThis \o call.selected_text))
        /\ side_thread_response' = [payload |-> call, status |-> 200]
  /\ nextId' = nextId + 2
  /\ side_thread_task' = [side_thread_task EXCEPT ![w] = NoTask]
  /\ UNCHANGED <<pc, payload, response, conversation_id, openai_messages,
                 full_response, events, disconnected, overdue, submitted,
                 title_call>>

\* POST /api/conversations, answered 200; parents are the pairs of
\* parent_message_id and parent_conversation_id the calls carry (Null: none),
\* which the route stores as they come
CreateConversationFrom(users, sides, parents) ==
  /\ nextId <= MaxId
  /\ \E uid \in users, side \in sides, parent \in parents :
       convs' = convs \cup
         {ConvRow(nextId, uid, <<"t">>, "gpt-4", 7, side, parent[1], parent[2])}
  /\ nextId' = nextId + 1
  /\ UNCHANGED <<msgs, side_thread_response>>
  /\ UNCHANGED reqvars

CreateConversation(users, sides) ==
  CreateConversationFrom(users, sides, {<<Null, Null>>})

\* POST /api/messages, answered 200: the conversation must be the user's
CreateMessage(users) ==
  /\ nextId <= MaxId
  /\ \E cid \in 1..(nextId - 1), uid \in users, role \in Roles, content \in Texts :
       /\ ConvRows(convs, cid, uid) # {}
       /\ msgs' = Append(msgs, MsgRow(nextId, cid, uid, role, content))
  /\ nextId' = nextId + 1
  /\ UNCHANGED <<convs, side_thread_response>>
  /\ UNCHANGED reqvars

\* DELETE /api/conversations/{conversation_id}: the row goes, and with it the
\* messages that reference it (cascade)
DeleteConversation(users) ==
  /\ \E cid \in 1..(nextId - 1), uid \in users :
       /\ ConvRows(convs, cid, uid) # {}
       /\ convs' = convs \ ConvRows(convs, cid, uid)
       /\ msgs' = SelectSeq(msgs, LAMBDA m : m.conversation_id # cid)
  /\ UNCHANGED <<nextId, side_thread_response>>
  /\ UNCHANGED reqvars

\* -------------------------------------------------------- title derivation

Whitespace == {" ", "\t", "\n"}
Quotes == {"\"", "'"}

RECURSIVE LStrip(_, _)
LStrip(str, chars) ==
  IF str # <<>> /\ Head(str) \in chars THEN LStrip(Tail(str), chars) ELSE str

RECURSIVE RStrip(_, _)
RStrip(str, chars) ==
  IF str # <<>> /\ str[Len(str)] \in chars
    THEN RStrip(SubSeq(str, 1, Len(str) - 1), chars)
    ELSE str

\* str.strip()
Strip(str) == RStrip(LStrip(str, Whitespace), Whitespace)

\* str.split(): the runs of characters between whitespace
RECURSIVE SplitFrom(_, _, _)
SplitFrom(str, word, words) ==
  IF str = <<>>
    THEN IF word = <<>> THEN words ELSE Append(words, word)
  ELSE IF Head(str) \in Whitespace
    THEN SplitFrom(Tail(str), <<>>,
                   IF word = <<>> THEN words ELSE Append(words, word))
  ELSE SplitFrom(Tail(str), Append(word, Head(str)), words)

Split(str) == SplitFrom(str, <<>>, <<>>)

\* " ".join(words)
RECURSIVE Join(_)
Join(words) ==
  IF words = <<>> THEN <<>>
  ELSE IF Len(words) = 1 THEN words[1]
  ELSE words[1] \o <<" ">> \o Join(Tail(words))

\* text.find(char): the lowest 0-based index, -1 when there is none
RECURSIVE FindFrom(_, _, _)
FindFrom(text, char, i) ==
  IF i > Len(text) THEN -1
  ELSE IF text[i] = char THEN i - 1
  ELSE FindFrom(text, char, i + 1)

Find(text, char) == FindFrom(text, char, 1)

\* next((m for m in messages if m.get("role") == role and m.get("content")),
\* None), then (... or {}).get("content", "").strip()
RECURSIVE FirstContentFrom(_, _, _)
FirstContentFrom(messages, role, i) ==
  IF i > Len(messages) THEN <<>>
  ELSE IF messages[i].role = role /\ messages[i].content # <<>>
    THEN Strip(messages[i].content)
  ELSE FirstContentFrom(messages, role, i + 1)

FirstContent(messages, role) == FirstContentFrom(messages, role, 1)

\* the characters of title.rstrip(...) at openai.py:95 (those of them that
\* the texts here are written in)
TitleTrailing == {".", "!", "?", "\"", "'"}

\* the provider answered with content: strip, strip quotes and whitespace at
\* both ends, cap to 8 words, strip trailing punctuation and quotes
SanitizeTitle(content) ==
  LET stripped == Strip(content)
      unquoted == RStrip(LStrip(stripped, Quotes \cup Whitespace),
                         Quotes \cup Whitespace)
      words == Split(unquoted)
      capped == IF Len(words) > 8 THEN Join(SubSeq(words, 1, 8)) ELSE unquoted
      title == RStrip(capped, TitleTrailing)
  IN IF title # <<>> THEN title ELSE NewChat

\* text[: sentence_end + 1] where sentence_end is the index of the first
\* '.', '!' or '?', and the whole text when there is none
FirstSentence(text) ==
  LET found == {i \in {Find(text, "."), Find(text, "!"), Find(text, "?")} :
                  i # -1}
      sentence_end == IF found # {}
                        THEN CHOOSE i \in found : \A j \in found : i <= j
                        ELSE Len(text)
  IN IF sentence_end < Len(text) THEN SubSeq(text, 1, sentence_end + 1) ELSE text

\* the except clause: the first sentence of the assistant's text, or of the
\* user's, capped to 8 words
FallbackTitle(assistant_text, user_text) ==
  LET text == IF assistant_text # <<>> THEN assistant_text ELSE user_text
      words == Split(FirstSentence(text))
      title == Strip(Join(SubSeq(words, 1, IF Len(words) < 8 THEN Len(words) ELSE 8)))
  IN IF text = <<>> THEN NewChat
     ELSE IF title # <<>> THEN title ELSE NewChat

\* what client.chat.completions.create does: it returns a completion with a
\* content (the empty one stands for no choices too), or it raises
Completion(content) == [ok |-> TRUE, content |-> content]
Raised == [ok |-> FALSE, content |-> <<>>]

generate_title(messages, completion) ==
  LET user_text == FirstContent(messages, "user")
      assistant_text == FirstContent(messages, "assistant")
  IN IF messages = <<>> THEN NewChat
     ELSE IF user_text = <<>> /\ assistant_text = <<>> THEN NewChat
     ELSE IF completion.ok THEN SanitizeTitle(completion.content)
     ELSE FallbackTitle(assistant_text, user_text)

Sentence(n) == Join([i \in 1..n |-> <<"a">>])

\* the texts of the title calls: empty, blank, quoted, with terminal
\* punctuation inside and at the end, of more than 8 words
TitleTexts ==
  { <<>>, <<" ">>, <<"a">>, <<"a", ".">>, <<"a", "?", " ", "b">>,
    <<"'", "a", "'">>, <<"\"", "a", "\"">>, <<" ", "a", " ">>,
    <<"a", " ", ".">>, <<".">>, <<"a", "'", "!">>,
    Sentence(9), Sentence(9) \o <<".">>, Sentence(8) \o <<"!">>,
    Sentence(8) \o <<"'", " ", "b">> }

TitleMessages ==
  {<<>>}
  \cup {<<Msg(role, t)>> : role \in Roles, t \in TitleTexts}
  \cup {<<Msg("user", t), Msg("assistant", u)>> : t \in TitleTexts, u \in TitleTexts}

TitleCalls ==
  [messages : TitleMessages,
   completion : {Raised} \cup {Completion(t) : t \in TitleTexts},
   title : {<<>>},
   returned : {FALSE}]

NoTitleCall ==
  [messages |-> <<>>, completion |-> Raised, title |-> <<>>, returned |-> FALSE]

\* generate_title is called and returns
GenerateTitle ==
  /\ ~title_call.returned
  /\ title_call' =
       [title_call EXCEPT
          !.title = generate_title(title_call.messages, title_call.completion),
          !.returned = TRUE]
  /\ UNCHANGED <<convs, msgs, nextId, pc, payload, response, conversation_id,
                 openai_messages, full_response, events, disconnected, overdue,
                 submitted, side_thread_response, side_thread_task>>

\* ------------------------------------------------- reads and edits by id

\* GET /api/conversations: the data of the answer (one page holds them all)
GetConversations(cs, uid) ==
  {c \in cs : c.user_id = uid /\ c.is_side_thread = FALSE}

\* GET /api/conversations/{conversation_id}: the row returned; none when the
\* single-row read fails (404 or 500)
GetConversation(cs, cid, uid) == ConvRows(cs, cid, uid)

\* GET /api/messages: the data of the answer; none when the conversation is
\* not the user's
GetMessages(cs, ms, cid, uid) ==
  IF ConvRows(cs, cid, uid) = {} THEN <<>> ELSE History(ms, cid, uid)

\* PATCH /api/conversations/{conversation_id} with a title, answered 200:
\* the update matched a row
UpdateConversation(users, titles) ==
  /\ \E cid \in 1..(nextId - 1), uid \in users, title \in titles :
       LET rows == ConvRows(convs, cid, uid) IN
       /\ rows # {}
       /\ convs' = (convs \ rows) \cup {[c EXCEPT !.title = title] : c \in rows}
  /\ UNCHANGED <<msgs, nextId, side_thread_response>>
  /\ UNCHANGED reqvars

\* ---------------------------------------------------------- specification

NoPayload ==
  [userId |-> "", conversationId |-> Null, messages |-> <<>>,
   model |-> "gpt-4", temperature |-> 7]

\* the empty store, no request received
InitStore ==
  /\ convs = {}
  /\ msgs = <<>>
  /\ nextId = 1
  /\ pc = [p \in Req |-> "idle"]
  /\ payload = [p \in Req |-> NoPayload]
  /\ response = [p \in Req |-> 0]
  /\ conversation_id = [p \in Req |-> Null]
  /\ openai_messages = [p \in Req |-> <<>>]
  /\ full_response = [p \in Req |-> <<>>]
  /\ events = [p \in Req |-> <<>>]
  /\ disconnected = [p \in Req |-> FALSE]
  /\ overdue = [p \in Req |-> FALSE]
  /\ submitted = {}
  /\ side_thread_response = [payload |-> NoSideThread, status |-> 0]
  /\ side_thread_task = [w \in Req |-> NoTask]

Init == InitStore /\ title_call = NoTitleCall

\* the payloads of the exchanges followed from request to done event
ExchangePayloads ==
  {pl \in Payloads :
     /\ pl.userId = "u1"
     /\ pl.messages \in
          { <<>>,
            <<Msg("user", <<"a">>)>>,
            <<Msg("system", <<"b">>)>> }}

\* one started exchange after the other, from the request to the close of its
\* event stream; less than 15 s pass between two events
Next ==
  \/ ChatStreamFrom("r1", ExchangePayloads) /\ pc'["r1"] = "stream"
  \/ Token("r1")
  \/ TokenAfterDisconnect("r1")
  \/ StreamEnd("r1")
  \/ ProviderFail("r1")
  \/ Done("r1")
  \/ Disconnect("r1")

Spec == Init /\ [][Next]_vars

\* the streams of single-message exchanges, with the wall clock
StreamPayloads ==
  {pl \in Payloads : pl.userId = "u1" /\ pl.messages = <<Msg("user", <<"a">>)>>}

NextStream ==
  \/ ChatStreamFrom("r1", StreamPayloads) /\ pc'["r1"] = "stream"
  \/ Token("r1")
  \/ TokenAfterDisconnect("r1")
  \/ StreamEnd("r1")
  \/ ProviderFail("r1")
  \/ Done("r1")
  \/ Disconnect("r1")
  \/ Tick("r1")

SpecStream == Init /\ [][NextStream]_vars

\* history assembly: the routes, called by u1, fill the store; then one
\* chat-stream request of any payload is received
NextAssemble ==
  \/ pc["r1"] = "idle" /\ CreateSideThread({"u1"})
  \/ pc["r1"] = "idle" /\ CreateConversation({"u1"}, {FALSE})
  \/ pc["r1"] = "idle" /\ CreateMessage({"u1"})
  \/ pc["r1"] = "idle" /\ DeleteConversation({"u1"})
  \/ pc["r1"] = "idle" /\ ChatStream("r1")

SpecAssemble == Init /\ [][NextAssemble]_vars

\* two requests of u1 with the same user message, each served by its own
\* worker process
NextRace ==
  \/ CreateConversation({"u1"}, {FALSE})
  \/ \E p \in Req :
       \/ ChatStreamFrom(p, StreamPayloads) /\ pc'[p] = "stream"
       \/ ExistingMsgCheck(p)
       \/ UserInsert(p)
       \/ AssistantInsert(p)
       \/ Done(p)

SpecRace == Init /\ [][NextRace]_vars

\* a selected text of 31 characters, one more than the title keeps
LongText ==
  <<"T", "C", "P", " ", "s", "l", "o", "w", " ", "s", "t", "a", "r", "t", " ",
    "d", "o", "u", "b", "l", "e", "s", " ", "t", "h", "e", " ", "c", "w", "n",
    "d">>

SideTexts == {<<"a">>, SubSeq(LongText, 1, 30), LongText}
SideSpans == {<<0, 1>>, <<2, 5>>}

\* side threads: u1 fills the store (with messages of content "a") and
\* creates side threads, two of them on one message; calls that name no
\* message of the caller are answered too
\* calls of either user that name message 2 or no message at all
UnownedCalls ==
  {SideThreadCreate(uid, pmid, 1, <<"a">>, 0, 1) : uid \in Users, pmid \in {1, 2}}

NextSide ==
  \/ CreateConversation({"u1"}, {FALSE})
  \/ CreateMessage({"u1"}) /\ msgs'[Len(msgs')].content = <<"a">>
  \/ CreateSideThreadFrom({"u1"}, SideTexts, SideSpans, MaxId + 2)
  \/ CreateSideThreadNotFound(UnownedCalls)

SpecSide == Init /\ [][NextSide]_vars

\* deletions while a stream is open: u1 fills the store by the routes between
\* two exchanges (conversations, messages, side threads without a seed
\* message whose parent is message 2 in conversation 1 or 3), and deletes
\* conversations at any time; an exchange carries one new user message or none
ReconcilePayloads ==
  {pl \in Payloads :
     /\ pl.userId = "u1"
     /\ pl.messages \in {<<>>, <<Msg("user", <<"a">>)>>}}

NextReconcile ==
  \/ /\ pc["r1"] # "stream"
     /\ \/ CreateConversation({"u1"}, {FALSE})
        \/ CreateConversationFrom({"u1"}, {TRUE}, {<<2, 1>>, <<2, 3>>})
  \/ /\ pc["r1"] # "stream"
     /\ CreateMessage({"u1"})
     /\ msgs'[Len(msgs')].content = <<"b">>
     /\ msgs'[Len(msgs')].role = "user"
  \/ DeleteConversation({"u1"})
  \/ ChatStreamFrom("r1", ReconcilePayloads)
  \/ StreamEnd("r1")
  \/ Done("r1")

SpecReconcile == Init /\ [][NextReconcile]_vars

\* title derivation: a call with any of the messages and any behaviour of
\* the provider call, then its return
InitTitle == InitStore /\ title_call \in TitleCalls

NextTitle == GenerateTitle

SpecTitle == InitTitle /\ [][NextTitle]_vars

\* side threads created by two worker processes: u1 fills the store, the
\* two workers serve its create_side_thread calls
NextSideRace ==
  \/ CreateConversation({"u1"}, {FALSE})
  \/ CreateMessage({"u1"}) /\ msgs'[Len(msgs')].content = <<"a">>
  \/ \E w \in Req : SideThreadRead(w, {"u1"})
  \/ \E w \in Req : SideThreadWrite(w, MaxId + 2)

SpecSideRace == Init /\ [][NextSideRace]_vars

\* two users: both create conversations and messages; u1 also creates side
\* threads, renames and deletes conversations by any id; then u1 sends
\* chat-stream requests on any conversation id
OwnerPayloads ==
  {pl \in Payloads :
     /\ pl.userId = "u1"
     /\ pl.messages \in {<<>>, <<Msg("user", <<"a">>)>>}}

NextOwners ==
  \/ pc["r1"] = "idle" /\ CreateConversation(Users, {FALSE})
  \/ /\ pc["r1"] = "idle"
     /\ CreateMessage(Users)
     /\ msgs'[Len(msgs')].content = <<"b">>
     /\ msgs'[Len(msgs')].role = "user"
  \/ pc["r1"] = "idle" /\ CreateSideThread({"u1"})
  \/ pc["r1"] = "idle" /\ UpdateConversation({"u1"}, {<<"n">>})
  \/ pc["r1"] = "idle" /\ DeleteConversation({"u1"})
  \/ ChatStreamFrom("r1", OwnerPayloads)
  \/ StreamEnd("r1")
  \/ Done("r1")

SpecOwners == Init /\ [][NextOwners]_vars

\* ------------------------------------------------------------ properties

\* request p is received in this step
Received(p) ==
  /\ pc[p] \in {"idle", "rejected", "closed"}
  /\ pc'[p] \in {"stream", "rejected"}

\* rows as the {role, content} entries of a prompt
RoleContent(rows) ==
  [i \in 1..Len(rows) |-> [role |-> rows[i].role, content |-> rows[i].content]]

UserEntries(messages) == SelectSeq(messages, LAMBDA m : m.role = "user")

\* prompt followed by the first user-role entry of messages, unless there is
\* none or its content is that of the last entry of prompt
WithNewMessage(prompt, messages) ==
  IF UserEntries(messages) = <<>> THEN prompt
  ELSE LET m == Head(UserEntries(messages)) IN
    IF prompt # <<>> /\ m.content = prompt[Len(prompt)].content
      THEN prompt
      ELSE prompt \o <<[role |-> "user", content |-> m.content]>>

\* the conversation rows a request of payload pl addresses
Addressed(pl) ==
  {c \in convs : c.conversation_id = pl.conversationId /\ c.user_id = pl.userId}

\* C1: a request on a conversation of the user that is no side thread and
\* whose stored history H is not empty starts a stream, and its prompt is H
\* followed by the first user-role entry m of the request; it is H alone when
\* m's content is the content of the last message of H or when there is no m.
C1_ContinuationPrompt ==
  [][\A p \in Req :
       LET pl == payload'[p]
           H == RoleContent(History(msgs, pl.conversationId, pl.userId))
       IN (/\ Received(p)
           /\ pl.userId # ""
           /\ pl.conversationId # Null
           /\ \E c \in Addressed(pl) : ~c.is_side_thread
           /\ H # <<>>)
          => /\ pc'[p] = "stream"
             /\ openai_messages'[p] = WithNewMessage(H, pl.messages)]_vars

\* C1 witness: a continuation whose new message repeats the last of two
\* stored messages, and is left out of the prompt
C1_Witness ==
  LET pl == payload["r1"]
      H == RoleContent(History(msgs, pl.conversationId, pl.userId))
  IN /\ pc["r1"] = "stream"
     /\ pl.conversationId # Null
     /\ \E c \in Addressed(pl) : ~c.is_side_thread
     /\ Len(H) = 2
     /\ UserEntries(pl.messages) # <<>>
     /\ Head(UserEntries(pl.messages)).content = H[2].content
     /\ Head(UserEntries(pl.messages)).content # H[1].content
     /\ openai_messages["r1"] = H

\* C2 as claimed: the prompt of a request on a side thread is the parent
\* conversation's history up to and including the message parent_message_id,
\* then the side thread's own messages, then the new user message unless it
\* repeats the last entry.
C2_SideThreadPrompt ==
  [][\A p \in Req :
       LET pl == payload'[p]
       IN (/\ Received(p)
           /\ pc'[p] = "stream"
           /\ pl.conversationId # Null
           /\ \E c \in Addressed(pl) : c.is_side_thread)
          => \E c \in Addressed(pl) :
               LET parent == History(msgs, c.parent_conversation_id, pl.userId)
                   own == History(msgs, pl.conversationId, pl.userId)
               IN \E k \in 1..Len(parent) :
                    /\ parent[k].message_id = c.parent_message_id
                    /\ openai_messages'[p] =
                         WithNewMessage(
                           RoleContent(SubSeq(parent, 1, k)) \o RoleContent(own),
                           pl.messages)]_vars

\* C3: a request of a user that names no conversation starts a stream whose
\* prompt is the request's messages as {role, content}, in the same number
\* and order; with an empty messages list it is rejected, no stream starts
\* and the store is left as it was.
C3_NewConversationPrompt ==
  [][\A p \in Req :
       LET pl == payload'[p]
       IN (/\ Received(p)
           /\ pl.userId # ""
           /\ pl.conversationId = Null)
          => IF pl.messages # <<>>
               THEN /\ pc'[p] = "stream"
                    /\ response'[p] = 200
                    /\ Len(openai_messages'[p]) = Len(pl.messages)
                    /\ \A i \in 1..Len(pl.messages) :
                         /\ openai_messages'[p][i].role = pl.messages[i].role
                         /\ openai_messages'[p][i].content = pl.messages[i].content
               ELSE /\ pc'[p] = "rejected"
                    /\ response'[p] >= 400
                    /\ events'[p] = <<>>
                    /\ UNCHANGED store]_vars

\* C3 witness: a new conversation of two messages, both in the prompt
C3_Witness ==
  /\ pc["r1"] = "stream"
  /\ payload["r1"].conversationId = Null
  /\ Len(payload["r1"].messages) = 2
  /\ payload["r1"].messages[1] # payload["r1"].messages[2]
  /\ openai_messages["r1"] = payload["r1"].messages

\* the persistence phase of request p runs in this step
Persisted(p) == pc[p] = "stream" /\ pc'[p] = "finish"

\* the persistence phase of request p runs in this step and no store call fails
PersistedAll(p) ==
  /\ Persisted(p)
  /\ \A i \in 1..Len(events'[p]) : events'[p][i].event # "error"

\* the rows this step appends to the messages table
AddedRows == SubSeq(msgs', Len(msgs) + 1, Len(msgs'))

AddedAssistant(p) ==
  SelectSeq(AddedRows, LAMBDA m : /\ m.role = "assistant"
                                   /\ m.conversation_id = conversation_id[p]
                                   /\ m.user_id = payload[p].userId)

\* the user-role rows of a conversation and user with a content
UserRows(ms, cid, uid, content) ==
  SelectSeq(ms, LAMBDA m : /\ m.conversation_id = cid /\ m.user_id = uid
                           /\ m.role = "user" /\ m.content = content)

\* C4 as claimed: when a user message that an earlier exchange submitted (and
\* persisted with no store failure) is submitted again, with no store failure,
\* the conversation ends with exactly one user-role row of that content.
C4_ExactlyOneRow ==
  [][\A p \in Req : \A sub \in Submission(p) :
       (PersistedAll(p) /\ sub \in submitted)
       => Len(UserRows(msgs', sub.conversation_id, sub.user_id, sub.content)) = 1]_vars

\* C5 as claimed: when the token stream ends, also by a provider failure after
\* some fragment, the persistence phase runs: the accumulated response is
\* inserted as an assistant message, or a store failure is reported.
C5_PersistenceAttempted ==
  [][\A p \in Req :
       (pc[p] = "stream" /\ pc'[p] # "stream" /\ full_response[p] # <<>>)
       => \/ /\ Len(AddedAssistant(p)) = 1
             /\ AddedAssistant(p)[1].content = full_response'[p]
          \/ /\ events'[p] # <<>>
             /\ events'[p][Len(events'[p])].event = "error"
             /\ events'[p][Len(events'[p])].message[1] = "Failed to save to database"]_vars

\* C6 as claimed: the events of a closed stream end with a done event, the
\* only one, which carries the conversation identifier of the exchange.
C6_EndsWithDone ==
  \A p \in Req :
    pc[p] = "closed"
    => /\ events[p] # <<>>
       /\ events[p][Len(events[p])] = DoneEvent(conversation_id[p])
       /\ Len(SelectSeq(events[p], LAMBDA e : e.event = "done")) = 1

\* C7 as claimed: a continuation whose new user message is appended to the
\* prompt (the stored history being the one the prompt was built from) and
\* whose persistence phase meets no store failure adds two rows to the
\* conversation: that user message, then the assistant reply.
C7_TwoNewRows ==
  [][\A p \in Req :
       LET pl == payload[p]
           H == History(msgs, pl.conversationId, pl.userId)
       IN (/\ PersistedAll(p)
           /\ pl.conversationId # Null
           /\ H # <<>>
           /\ UserEntries(pl.messages) # <<>>
           /\ openai_messages[p] =
                RoleContent(H) \o
                  <<[role |-> "user", content |-> Head(UserEntries(pl.messages)).content]>>)
          => RoleContent(History(msgs', pl.conversationId, pl.userId)) =
               openai_messages[p] \o
                 <<[role |-> "assistant", content |-> full_response'[p]]>>]_vars

\* C8 as claimed: after an exchange of one user message on a conversation that
\* is no side thread, with no store failure and the stored history still the
\* one the prompt was built from, the stored history is the prompt followed by
\* the assistant reply.
C8_HistoryIsPromptAndReply ==
  [][\A p \in Req :
       LET cid == conversation_id[p]
           uid == payload[p].userId
           H == RoleContent(History(msgs, cid, uid))
       IN (/\ PersistedAll(p)
           /\ \A c \in convs : c.conversation_id = cid => ~c.is_side_thread
           /\ Len(payload[p].messages) = 1
           /\ payload[p].messages[1].role = "user"
           /\ openai_messages[p] = WithNewMessage(H, payload[p].messages))
          => RoleContent(History(msgs', cid, uid)) =
               openai_messages[p] \o
                 <<[role |-> "assistant", content |-> full_response'[p]]>>]_vars

RECURSIVE ConcatContents(_)
ConcatContents(evs) ==
  IF evs = <<>> THEN <<>> ELSE Head(evs).content \o ConcatContents(Tail(evs))

TokensOf(evs) == SelectSeq(evs, LAMBDA e : e.event = "token")

\* C9: the accumulator always is the concatenation, in order, of the
\* fragments of the token events yielded so far; after the step in which the
\* client is found disconnected (or the stream ends) no fragment is
\* accumulated or yielded, and the assistant message persisted in that step
\* holds the accumulator.
C9_Accumulator ==
  /\ [](\A p \in Req : full_response[p] = ConcatContents(TokensOf(events[p])))
  /\ [][\A p \in Req :
          /\ (Persisted(p) /\ disconnected[p])
             => /\ \A i \in 1..Len(AddedAssistant(p)) :
                     AddedAssistant(p)[i].content = full_response'[p]
                /\ PersistedAll(p) => Len(AddedAssistant(p)) = 1
          /\ (pc[p] \in {"finish", "closed"} /\ ~Received(p))
             => /\ full_response'[p] = full_response[p]
                /\ TokensOf(events'[p]) = TokensOf(events[p])]_vars

\* C9 witness: the client left after the first fragment of a stream; that
\* fragment alone was yielded and is the content of the assistant row
C9_Witness ==
  /\ pc["r1"] = "finish"
  /\ disconnected["r1"]
  /\ full_response["r1"] = <<"a">>
  /\ TokensOf(events["r1"]) = <<TokenEvent(<<"a">>)>>
  /\ msgs # <<>>
  /\ msgs[Len(msgs)].role = "assistant"
  /\ msgs[Len(msgs)].conversation_id = conversation_id["r1"]
  /\ msgs[Len(msgs)].content = <<"a">>

\* C10 as claimed: a persistence phase in which the conversation insert, the
\* user-message insert or the timestamp touch fails, or none does, inserts
\* one assistant message holding the accumulated response.
C10_ResponseNeverDiscarded ==
  [][\A p \in Req :
       (/\ Persisted(p)
        /\ \/ PersistedAll(p)
           \/ \E step \in {"conv_insert", "user_insert", "touch"} :
                events'[p][Len(events'[p])] = DbErrorEvent(step))
       => /\ Len(AddedAssistant(p)) = 1
          /\ AddedAssistant(p)[1].content = full_response'[p]]_vars

\* the error events of a store failure
IsStoreError(e) ==
  /\ e.event = "error"
  /\ e.message[1] = "Failed to save to database"

C12_KeepAliveOnWallClock ==
  [][\A p \in Req :
       (/\ pc[p] = "stream" /\ overdue[p]
        /\ pc'[p] = "stream"
        /\ events'[p] # events[p])
       => events'[p] = Append(events[p], KeepAlive)]_vars

\* the user-role rows that hold the last user message of request p's prompt
SameUserRows(ms, p) ==
  LET u == UserEntries(openai_messages[p]) IN
  IF u = <<>> THEN <<>>
  ELSE UserRows(ms, conversation_id[p], payload[p].userId, u[Len(u)].content)

\* C13: each request inserts its user message when, and only when, its own
\* lookup found no row of that content, and inserts it without looking
\* again: rows inserted between the lookup and the insert are not seen (the
\* witness is the conversation that ends with two rows of identical content).
C13_CheckThenInsert ==
  [][\A p \in Req :
       /\ (pc[p] = "stream" /\ pc'[p] = "user_insert")
          => SameUserRows(msgs, p) = <<>>
       /\ (pc[p] = "stream" /\ pc'[p] = "assistant_insert")
          => SameUserRows(msgs, p) # <<>>
       /\ (pc[p] = "user_insert" /\ pc'[p] # "user_insert")
          => Len(SameUserRows(msgs', p)) = Len(SameUserRows(msgs, p)) + 1]_vars

\* C13 witness: two requests on the same conversation with the same user
\* message have both inserted it, each after a lookup that found nothing
C13_Witness ==
  /\ pc["r1"] = "assistant_insert"
  /\ pc["r2"] = "assistant_insert"
  /\ conversation_id["r1"] = conversation_id["r2"]
  /\ payload["r1"] = payload["r2"]
  /\ Len(SameUserRows(msgs, "r1")) = 2
  /\ SameUserRows(msgs, "r1")[1].content = SameUserRows(msgs, "r1")[2].content
  /\ SameUserRows(msgs, "r1")[1].message_id # SameUserRows(msgs, "r1")[2].message_id

\* C14 as claimed: a request on a side thread whose parent_message_id is not
\* the id of a message of the loaded parent history is rejected with an
\* error status: no stream starts and the store is left as it was.
C14_ParentMessageNotFound ==
  [][\A p \in Req :
       LET pl == payload'[p]
       IN (/\ Received(p)
           /\ pl.userId # ""
           /\ pl.conversationId # Null
           /\ \E c \in Addressed(pl) :
                /\ c.is_side_thread
                /\ LET parent == History(msgs, c.parent_conversation_id, pl.userId)
                   IN \A k \in 1..Len(parent) :
                        parent[k].message_id # c.parent_message_id)
          => /\ pc'[p] = "rejected"
             /\ response'[p] >= 400
             /\ events'[p] = <<>>
             /\ UNCHANGED store]_vars

\* C15 as claimed: a request without userId, or for a new conversation with
\* no messages, or on a conversation of the user that has no stored message
\* and with no messages, is answered 400; no stream starts and the store is
\* left as it was.
C15_ValidationAnswered400 ==
  [][\A p \in Req :
       LET pl == payload'[p]
       IN (/\ Received(p)
           /\ \/ pl.userId = ""
              \/ pl.conversationId = Null /\ pl.messages = <<>>
              \/ /\ pl.conversationId # Null
                 /\ pl.messages = <<>>
                 /\ \E c \in Addressed(pl) : ~c.is_side_thread
                 /\ History(msgs, pl.conversationId, pl.userId) = <<>>)
          => /\ response'[p] = 400
             /\ pc'[p] = "rejected"
             /\ events'[p] = <<>>
             /\ UNCHANGED store]_vars

\* a POST /api/conversations/side-thread is answered in this step
SideThreadAnswered == side_thread_response' # side_thread_response

\* ... and has created a side thread
SideThreadCreated ==
  /\ SideThreadAnswered
  /\ side_thread_response'.status = 200

\* C16 as claimed: a createSideThread call that names no message of the
\* caller is answered 404, and creates no conversation, changes no
\* annotation and inserts no message.
C16_SideThreadNotFound404 ==
  [][LET pl == side_thread_response'.payload
     IN (/\ SideThreadAnswered
         /\ \A i \in 1..Len(msgs) :
              ~(/\ msgs[i].message_id = pl.parent_message_id
                /\ msgs[i].user_id = pl.user_id))
        => /\ side_thread_response'.status = 404
           /\ UNCHANGED store]_vars

\* C17 as claimed: every side thread has both parent fields set, and they
\* are the ids of a conversation and of a message of the side thread's user.
C17_SideThreadParents ==
  \A c \in convs :
    c.is_side_thread
    => /\ c.parent_conversation_id # Null
       /\ c.parent_message_id # Null
       /\ \E parent \in convs :
            /\ parent.conversation_id = c.parent_conversation_id
            /\ parent.user_id = c.user_id
       /\ \E i \in 1..Len(msgs) :
            /\ msgs[i].message_id = c.parent_message_id
            /\ msgs[i].user_id = c.user_id

DerivedTitle(text) ==
  IF Len(text) <= 30 THEN text ELSE SubSeq(text, 1, 30) \o <<".", ".", ".">>

EndsWith(str, suffix) ==
  /\ Len(str) >= Len(suffix)
  /\ SubSeq(str, Len(str) - Len(suffix) + 1, Len(str)) = suffix

\* C19: a successful createSideThread adds one conversation row: a side
\* thread of the caller with the parent ids of the request and a title made
\* of the selected text, whole up to 30 characters, else its first 30
\* characters and an ellipsis; and one message row in it: of role user, with
\* the content "Discuss this: " followed by the selected text.
C19_SideThreadCreated ==
  [][LET pl == side_thread_response'.payload
     IN SideThreadCreated
        => /\ Cardinality(convs' \ convs) = 1
           /\ convs \subseteq convs'
           /\ \A c \in convs' \ convs :
                /\ c.is_side_thread
                /\ c.parent_message_id = pl.parent_message_id
                /\ c.parent_conversation_id = pl.parent_conversation_id
                /\ c.user_id = pl.user_id
                /\ \A old \in convs : old.conversation_id # c.conversation_id
                /\ EndsWith(c.title, DerivedTitle(pl.selected_text))
                /\ Len(c.title) > Len(DerivedTitle(pl.selected_text))
                   => c.title[Len(c.title) - Len(DerivedTitle(pl.selected_text))] = " "
                /\ Len(AddedRows) = 1
                /\ AddedRows[1].conversation_id = c.conversation_id
                /\ AddedRows[1].user_id = pl.user_id
                /\ AddedRows[1].role = "user"
                /\ AddedRows[1].content =
                     <<"D", "i", "s", "c", "u", "s", "s", " ",
                       "t", "h", "i", "s", ":", " ">> \o pl.selected_text]_vars

\* C19 witness: a side thread made from a selected text of 31 characters
C19_Witness ==
  /\ side_thread_response.status = 200
  /\ Len(side_thread_response.payload.selected_text) = 31
  /\ \E c \in convs :
       /\ c.is_side_thread
       /\ c.parent_message_id = side_thread_response.payload.parent_message_id
       /\ Len(c.title) = 39
       /\ \E i \in 1..Len(msgs) :
            /\ msgs[i].conversation_id = c.conversation_id
            /\ Len(msgs[i].content) = 45

\* the rows of the messages table of a conversation, whoever the user
RowsOf(ms, cid) == SelectSeq(ms, LAMBDA m : m.conversation_id = cid)

\* C20: no message row is in the store before the row of its conversation;
\* and when the stream of a new conversation with a single user message
\* closes with its done event after a persistence phase without failure, the
\* store holds one conversation row with the identifier of the done event
\* and the user, model and temperature of the request, and that conversation
\* has two message rows: the user message, then the assistant message with
\* the accumulated response.
C20_NewConversationStored ==
  /\ [](\A i \in 1..Len(msgs) :
          \E c \in convs : c.conversation_id = msgs[i].conversation_id)
  /\ [][\A p \in Req :
          LET pl == payload[p]
              done == events'[p][Len(events'[p])]
          IN (/\ pc[p] = "finish" /\ pc'[p] = "closed"
              /\ pl.conversationId = Null
              /\ Len(pl.messages) = 1
              /\ pl.messages[1].role = "user"
              /\ \A i \in 1..Len(events[p]) : events[p][i].event # "error")
             => /\ done.event = "done"
                /\ Cardinality({c \in convs' : c.conversation_id = done.conversationId}) = 1
                /\ \A c \in convs' :
                     c.conversation_id = done.conversationId
                     => /\ c.user_id = pl.userId
                        /\ c.model = pl.model
                        /\ c.temperature = pl.temperature
                /\ RoleContent(RowsOf(msgs', done.conversationId)) =
                     <<[role |-> "user", content |-> pl.messages[1].content],
                       [role |-> "assistant", content |-> full_response[p]]>>
                /\ \A i \in 1..Len(msgs') :
                     msgs'[i].conversation_id = done.conversationId
                     => msgs'[i].user_id = pl.userId]_vars

\* C20 witness: the stream of a new conversation has closed after two
\* fragments and no failure; its conversation has the two rows
C20_Witness ==
  /\ pc["r1"] = "closed"
  /\ payload["r1"].conversationId = Null
  /\ full_response["r1"] = <<"a", "b">>
  /\ \A i \in 1..Len(events["r1"]) : events["r1"][i].event # "error"
  /\ events["r1"][Len(events["r1"])] = DoneEvent(conversation_id["r1"])
  /\ Len(RowsOf(msgs, conversation_id["r1"])) = 2
  /\ RowsOf(msgs, conversation_id["r1"])[2].content = <<"a", "b">>
  /\ \E c \in convs : c.conversation_id = conversation_id["r1"]

\* the conversation rows this step inserts
AddedConvs == convs' \ convs

\* C21 as claimed: the persistence phase inserts a conversation row exactly
\* when the exchange began as a new conversation (no conversation id in the
\* request), and the exchange of a continuation never inserts one, whatever
\* deletions happen while its stream is open.
C21_RowOnlyForNewConversation ==
  [][\A p \in Req :
       /\ (Persisted(p) /\ payload[p].conversationId # Null) => AddedConvs = {}
       /\ (PersistedAll(p) /\ payload[p].conversationId = Null) =>
            \E c \in AddedConvs : c.conversation_id = conversation_id[p]]_vars

TerminalPunctuation == {".", "!", "?"}

\* C22 as claimed: whatever the messages and whether the provider call
\* succeeds or fails, generate_title returns a non-empty string of at most 8
\* whitespace-separated words that neither starts nor ends with a quote
\* character and does not end in '.', '!' or '?'; it returns "New Chat" when
\* the messages hold neither user nor assistant content.
C22_TitleShape ==
  title_call.returned =>
    LET title == title_call.title IN
    /\ title # <<>>
    /\ Len(Split(title)) <= 8
    /\ title[1] \notin Quotes
    /\ title[Len(title)] \notin Quotes
    /\ title[Len(title)] \notin TerminalPunctuation
    /\ (\A i \in 1..Len(title_call.messages) :
          \/ title_call.messages[i].role \notin {"user", "assistant"}
          \/ Strip(title_call.messages[i].content) = <<>>)
         => title = NewChat

\* title is a result of title derivation for these messages: what
\* generate_title returns when the provider call fails, or what it returns
\* for some answer of the provider
TitleDerivation(title, messages) ==
  \/ title = generate_title(messages, Raised)
  \/ \E content \in TitleTexts \cup {title} :
       title = generate_title(messages, Completion(content))

\* C23 as claimed: the title of a conversation row that the persistence phase
\* of a chat-stream exchange inserts is the result of title derivation for the
\* exchange (its prompt and the assistant's reply): at most 8 words, and
\* "New Chat" when there is no content.
C23_StoredTitleDerived ==
  [][\A p \in Req :
       Persisted(p) =>
         \A c \in AddedConvs :
           /\ Len(Split(c.title)) <= 8
           /\ TitleDerivation(c.title,
                Append(openai_messages[p],
                       Msg("assistant", full_response[p])))]_vars

ErrorEvents(evs) == SelectSeq(evs, LAMBDA e : e.event = "error")

\* C24: in the event sequence of a stream, every store write of the exchange
\* comes after the last token event (the store changes only in the
\* persistence step, which yields no token, and no token is yielded after
\* it); there is at most one error event; no token event follows an error or
\* done event; nothing follows the done event.
C24_EventOrder ==
  [][\A p \in Req :
       /\ store' # store => \E q \in Req : Persisted(q)
       /\ Persisted(p) => TokenEvents(events'[p]) = TokenEvents(events[p])
       /\ (pc[p] \in {"finish", "closed"} /\ ~Received(p))
            => TokenEvents(events'[p]) = TokenEvents(events[p])
       /\ LET evs == events'[p] IN
            /\ Len(ErrorEvents(evs)) <= 1
            /\ \A i \in 1..Len(evs) : \A j \in (i + 1)..Len(evs) :
                 evs[i].event \in {"error", "done"} => evs[j].event # "token"
            /\ \A i \in 1..Len(evs) : evs[i].event = "done" => i = Len(evs)]_vars

\* a closed stream of two tokens, a store error and the done event
C24_Witness ==
  /\ pc["r1"] = "closed"
  /\ Len(events["r1"]) = 4
  /\ events["r1"][1].event = "token"
  /\ events["r1"][2].event = "token"
  /\ events["r1"][3].event = "error"
  /\ events["r1"][4].event = "done"
  /\ msgs # <<>>

\* C25 as claimed: after any interleaving of successful create_side_thread
\* calls on one parent message no annotation is lost: every side thread that
\* a call created has its button in the annotation list of its parent message.
C25_NoAnnotationLost ==
  \A c \in convs :
    c.is_side_thread =>
      \E i \in 1..Len(msgs) :
        /\ msgs[i].message_id = c.parent_message_id
        /\ \E k \in 1..Len(msgs[i].indices_for_button) :
             msgs[i].indices_for_button[k].conversation_id = c.conversation_id

\* C26 as claimed: the persistence phase inserts a user-role row only with a
\* content that the request's messages supply; it never copies a user message
\* of the stored history or of the parent prefix into the conversation, also
\* when the request carries no new message.
C26_UserRowFromRequest ==
  [][\A p \in Req :
       Persisted(p) =>
         \A i \in 1..Len(AddedRows) :
           AddedRows[i].role = "user" =>
             \E k \in 1..Len(payload[p].messages) :
               payload[p].messages[k].content = AddedRows[i].content]_vars

\* C27 as claimed: the prompt handed to the provider (the prompt of every
\* request whose stream has started) holds at least one message, in all three
\* assembly cases, also for a side thread whose parent history, own history
\* and request messages are all empty.
C27_PromptNotEmpty ==
  \A p \in Req : pc[p] = "stream" => openai_messages[p] # <<>>

\* the rows of the store that user uid owns
OwnConvs(uid) == {c \in convs : c.user_id = uid}
OwnMsgs(uid) == SelectSeq(msgs, LAMBDA m : m.user_id = uid)

====
